---- MODULE Spec2Model ----
(***************************************************************************)
(* The authenticated HTTP client of the front end (lib/axios): the token   *)
(* store kept in localStorage, the request interceptor that attaches the   *)
(* access token, and the response interceptor that refreshes the access    *)
(* token once on a 401 and queues the calls that fail meanwhile.           *)
(*                                                                         *)
(* JavaScript runs one task to completion and then drains the microtask    *)
(* queue before the next task starts.  A task of the model is one event of *)
(* the page (the application issues a call, a response arrives, the        *)
(* response of the refresh call arrives); the promise reactions a task     *)
(* schedules are the entries of `microtasks`, run one per step, in order,  *)
(* before any other task.                                                  *)
(*                                                                         *)
(* The page may load with any credentials stored; from then on the token   *)
(* store is written by the response interceptor alone.  Assigning          *)
(* window.location.href is counted and the page goes on running: responses *)
(* that arrive before the document is replaced are still handled.          *)
(*                                                                         *)
(* Spec is the client with any answers from the server; FairSpec and       *)
(* AnsweredSpec add the scheduling under which progress is stated;         *)
(* StoreSpec is the token store called on its own; PageSpec is the         *)
(* newsfeed page (NewsfeedPage) with the state it keeps in sessionStorage; *)
(* HandlerSpec is that page with the handlers of its polling indicator     *)
(* called in any state.                                                    *)
(***************************************************************************)
EXTENDS Integers, Sequences, FiniteSets, TLC

\* Bounds of the model.
NumCalls == 3

\* The calls the page issues in the specifications with fairness.
NumLiveCalls == 2

\* The number of minted tokens among the arguments of the token store's setters.
NumStoreTokens == 3

\* The feeds the feed service creates for the page, and the posts it shows.
NumFeeds == 2
NumPosts == 2

\* The requests the handlers of the page can be waiting for at one time.
MaxInflight == 2

\* The refetch interval of an item query that polls, in milliseconds.
PollInterval == 5000

Calls == 1..NumCalls

\* localStorage.getItem returns null for a key that is not stored.
Null == "<null>"

\* The keys of the token store (part_001 lines 16, 28).
Keys == {"accessToken", "refreshToken"}

\* The tokens a page can find stored when it loads.
InitialAccessTokens == {"tok0"}
RefreshTokens == {"ref1"}

\* The remote API mints a new access token for every refresh call it accepts:
\* the n-th refresh call of the page is answered with MintedToken(n).
MintedToken(n) == "tok" \o ToString(n)

\* Request paths of the application's calls (part_003) and of the auth service.
Urls == {"/posts/", "/auth/signin/", "/auth/register/", "/auth/token/refresh/"}

\* Outcomes of an HTTP exchange: a status, or 0 for an error without a response.
FailureStatuses == {401, 500, 0}

VARIABLES
    localStorage,   \* the token store: Keys -> token or Null
    isRefreshing,   \* part_001 line 52
    failedQueue,    \* part_001 line 53: the queued calls, oldest first
    req,            \* one record per call of the application
    refreshPosts,   \* the refresh calls in flight
    microtasks,     \* promise reactions scheduled and not yet run
    redirects,      \* number of assignments to window.location.href
    refreshCount,   \* number of refresh calls issued so far
    last,           \* the task that ran last, with what it found
    contentType,    \* NewsfeedPage (part_002 line 17)
    prompts,        \* part_002 line 26
    filters,        \* part_002 line 32
    feedIds,        \* part_002 line 42
    savedPostIds,   \* part_002 line 64: a Set, in insertion order
    isPolling,      \* part_002 line 73
    sessionStorage, \* the page's keys in sessionStorage: string or Null
    inflight        \* the requests the page's handlers are waiting for

\* The state of the newsfeed page.
pageVars == <<contentType, prompts, filters, feedIds, savedPostIds, isPolling,
              sessionStorage, inflight>>

\* The state of the HTTP client.
clientVars == <<localStorage, isRefreshing, failedQueue, req, refreshPosts,
                microtasks, redirects, refreshCount>>

vars == <<clientVars, last, pageVars>>

-----------------------------------------------------------------------------
\* Token store (part_001 lines 14-37), on a value `ls` of localStorage.

\* JavaScript truthiness of a string-or-null.
Truthy(v) == v # Null /\ v # ""

setItem(ls, key, value) == [ls EXCEPT ![key] = value]

removeItem(ls, key) == [ls EXCEPT ![key] = Null]

\* setAccessToken with its test inverted.
setAccessToken_Inverted(ls, token) ==
    IF Truthy(token) THEN removeItem(ls, "accessToken")
    ELSE setItem(ls, "accessToken", token)

\* setAccessToken that stores the token under both keys.
setAccessToken_BothKeys(ls, token) ==
    IF Truthy(token)
    THEN setItem(setItem(ls, "accessToken", token), "refreshToken", token)
    ELSE removeItem(ls, "accessToken")

setAccessToken(ls, token) ==
    IF Truthy(token) THEN setItem(ls, "accessToken", token)
    ELSE removeItem(ls, "accessToken")

getAccessToken(ls) == ls["accessToken"]

getRefreshToken(ls) == ls["refreshToken"]

\* setRefreshToken writing under the key of the access token.
setRefreshToken_AccessKey(ls, token) ==
    IF Truthy(token) THEN setItem(ls, "accessToken", token)
    ELSE removeItem(ls, "accessToken")

setRefreshToken(ls, token) ==
    IF Truthy(token) THEN setItem(ls, "refreshToken", token)
    ELSE removeItem(ls, "refreshToken")

\* clearTokens without line 36.
clearTokens_AccessOnly(ls) == removeItem(ls, "accessToken")

clearTokens(ls) == removeItem(removeItem(ls, "accessToken"), "refreshToken")

-----------------------------------------------------------------------------
\* Headers and errors.

\* A template literal prints null as "null".
Str(v) == IF v = Null THEN "null" ELSE v

Bearer(token) == "Bearer " \o Str(token)

NoError == [of |-> "none", id |-> 0, status |-> 0, message |-> ""]

\* The AxiosError of call c failing with `status` on the intercepted client.
CallError(c, status) ==
    [of |-> "call", id |-> c, status |-> status, message |-> ""]

\* The AxiosError of the refresh call that call c started.
RefreshError(c, status) ==
    [of |-> "refresh", id |-> c, status |-> status, message |-> ""]

\* new Error('No refresh token available') (part_001 line 108).
NoRefreshTokenError ==
    [of |-> "local", id |-> 0, status |-> 0,
     message |-> "No refresh token available"]

\* String.prototype.includes.
Includes(s, sub) ==
    \E i \in 1..(Len(s) - Len(sub) + 1) : SubSeq(s, i, i + Len(sub) - 1) = sub

\* isAuthEndpoint without line 79.
isAuthEndpoint_NoRefreshPath(url) ==
    \/ Includes(url, "/auth/signin")
    \/ Includes(url, "/auth/register")

\* part_001 lines 77-79.
isAuthEndpoint(url) ==
    \/ Includes(url, "/auth/signin")
    \/ Includes(url, "/auth/register")
    \/ Includes(url, "/auth/token/refresh")

-----------------------------------------------------------------------------
\* A request interceptor that passes the config on as it is.
RequestInterceptor_HeaderNotSet(config, ls) == config

\* Request interceptor (part_001 lines 40-47) on the config of a call.
RequestInterceptor(config, ls) ==
    IF Truthy(getAccessToken(ls))
    THEN [config EXCEPT !.auth = Bearer(getAccessToken(ls))]
    ELSE config

\* processQueue with line 66 (failedQueue = []) ahead of the loop.
processQueue_ClearsFirst(queue, error) == <<>>

\* processQueue without the test of line 60.
processQueue_AlwaysResolves(queue, error) ==
    [i \in 1..Len(queue) |-> [kind |-> "retry", id |-> queue[i], err |-> NoError]]

\* processQueue with the loop of line 59 running from the newest entry back.
processQueue_NewestFirst(queue, error) ==
    [i \in 1..Len(queue) |->
        IF error # NoError
        THEN [kind |-> "reject", id |-> queue[Len(queue) + 1 - i], err |-> error]
        ELSE [kind |-> "retry", id |-> queue[Len(queue) + 1 - i], err |-> NoError]]

\* processQueue (part_001 lines 58-67): the reactions it schedules, in queue
\* order.  Rejecting a queued promise rejects the caller's promise through
\* the catch of line 97; resolving it runs the then-callback of lines 91-96.
processQueue(queue, error) ==
    [i \in 1..Len(queue) |->
        IF error # NoError
        THEN [kind |-> "reject", id |-> queue[i], err |-> error]
        ELSE [kind |-> "retry", id |-> queue[i], err |-> NoError]]

Elems(s) == {s[i] : i \in 1..Len(s)}

\* A call: its config (url, _retry, the Authorization header), where it is
\* (st), how often it went out (sent), the status of the response its handler
\* is dealing with (resp, 0 for none), and whether a session-terminal outcome
\* found it out on the network (term).
NewCall ==
    [url |-> "", retry |-> FALSE, auth |-> Null, st |-> "new", sent |-> 0,
     resp |-> 0, term |-> FALSE]

\* A settled call keeps no config.
Settled(r, st) == [NewCall EXCEPT !.st = st, !.term = r.term]

\* The handler that ended a refresh cycle, with what it found: the queue and
\* how often each call had gone out.
Task(kind, c, tok) ==
    [kind |-> kind, id |-> c, queue |-> failedQueue,
     sent |-> [d \in Calls |-> req[d].sent], tok |-> tok]

NoTask ==
    [kind |-> "other", id |-> 0, queue |-> <<>>, sent |-> [d \in Calls |-> 0],
     tok |-> Null]

-----------------------------------------------------------------------------
\* The newsfeed page (part_002): its state, the keys it keeps in
\* sessionStorage, and the JavaScript conversions between the two.

ContentTypes == {"posts", "reels"}

\* What the user can have in the prompt box: nothing, blanks, a prompt.
PromptInputs == {"", "  ", "cats "}

\* The identifiers the feed service gives to the feeds it creates.
FeedIdValues == {6 * n : n \in 1..NumFeeds}

\* The identifiers of the posts on the page.
PostIds == {7 * n : n \in 1..NumPosts}

StorageKeys ==
    {"newsfeed_contentType", "newsfeed_activeFilter", "newsfeed_reelsFilter",
     "newsfeed_currentFeedId", "newsfeed_reelsFeedId", "newsfeed_savedPostIds",
     "newsfeed_isPolling"}

\* A value of type number | null: a number, NaN or null.
Num(n) == [t |-> "number", v |-> n]
NaN == [t |-> "NaN", v |-> 0]
NullId == [t |-> "null", v |-> 0]

\* String.prototype.trim, for blanks.
RECURSIVE TrimStart(_)
TrimStart(s) ==
    IF Len(s) > 0 /\ SubSeq(s, 1, 1) = " "
    THEN TrimStart(SubSeq(s, 2, Len(s))) ELSE s

RECURSIVE TrimEnd(_)
TrimEnd(s) ==
    IF Len(s) > 0 /\ SubSeq(s, Len(s), Len(s)) = " "
    THEN TrimEnd(SubSeq(s, 1, Len(s) - 1)) ELSE s

Trim(s) == TrimEnd(TrimStart(s))

Digits == <<"0", "1", "2", "3", "4", "5", "6", "7", "8", "9">>

IsDigit(ch) == \E d \in 1..10 : Digits[d] = ch

DigitValue(ch) == (CHOOSE d \in 1..10 : Digits[d] = ch) - 1

\* Number.prototype.toString of a non-negative integer.
RECURSIVE NumberToString(_)
NumberToString(n) ==
    IF n < 10 THEN Digits[n + 1]
    ELSE NumberToString(n \div 10) \o Digits[(n % 10) + 1]

\* The number of leading digits of s.
RECURSIVE LeadingDigits(_)
LeadingDigits(s) ==
    IF Len(s) > 0 /\ IsDigit(SubSeq(s, 1, 1))
    THEN 1 + LeadingDigits(SubSeq(s, 2, Len(s))) ELSE 0

\* The value of a string of digits.
RECURSIVE DigitsValue(_)
DigitsValue(s) ==
    IF Len(s) = 0 THEN 0
    ELSE 10 * DigitsValue(SubSeq(s, 1, Len(s) - 1))
            + DigitValue(SubSeq(s, Len(s), Len(s)))

\* parseInt(s, 10) of a string without sign: its leading digits, or NaN.
ParseInt(s) ==
    LET t == TrimStart(s)
        k == LeadingDigits(t)
    IN  IF k = 0 THEN NaN ELSE Num(DigitsValue(SubSeq(t, 1, k)))

\* JSON.stringify of an array of non-negative integers.
RECURSIVE JoinNumbers(_)
JoinNumbers(a) ==
    IF Len(a) = 0 THEN ""
    ELSE IF Len(a) = 1 THEN NumberToString(a[1])
    ELSE NumberToString(a[1]) \o "," \o JoinNumbers(Tail(a))

JSONStringify(a) == "[" \o JoinNumbers(a) \o "]"

\* The numbers of "n,n,...".
RECURSIVE ParseNumbers(_)
ParseNumbers(s) ==
    IF Len(s) = 0 THEN <<>>
    ELSE LET k == LeadingDigits(s)
             n == DigitsValue(SubSeq(s, 1, k))
         IN  IF k = Len(s) THEN <<n>>
             ELSE <<n>> \o ParseNumbers(SubSeq(s, k + 2, Len(s)))

\* JSON.parse of what JSONStringify writes.
JSONParse(s) == ParseNumbers(SubSeq(s, 2, Len(s) - 1))

\* new Set(array): the elements in the order of their first occurrence.
RECURSIVE NewSet(_)
NewSet(a) ==
    IF Len(a) = 0 THEN <<>>
    ELSE LET rest == NewSet(SubSeq(a, 1, Len(a) - 1))
             x == a[Len(a)]
         IN  IF x \in Elems(rest) THEN rest ELSE Append(rest, x)

\* Set.prototype.add and Set.prototype.delete on a copy.
SetAdd(set, x) == IF x \in Elems(set) THEN set ELSE Append(set, x)

SetDelete(set, x) == SelectSeq(set, LAMBDA y : y # x)

\* Boolean.prototype.toString.
BooleanToString(b) == IF b THEN "true" ELSE "false"

\* The state initialisers of the page (part_002 lines 17-79), on a value `ss`
\* of sessionStorage.
InitialContentType(ss) ==
    IF Truthy(ss["newsfeed_contentType"]) THEN ss["newsfeed_contentType"]
    ELSE "posts"

InitialPrompts == [posts |-> "", reels |-> ""]

InitialFilters(ss) ==
    [posts |-> IF Truthy(ss["newsfeed_activeFilter"])
               THEN ss["newsfeed_activeFilter"] ELSE "",
     reels |-> IF Truthy(ss["newsfeed_reelsFilter"])
               THEN ss["newsfeed_reelsFilter"] ELSE ""]

InitialFeedIds(ss) ==
    [posts |-> IF Truthy(ss["newsfeed_currentFeedId"])
               THEN ParseInt(ss["newsfeed_currentFeedId"]) ELSE NullId,
     reels |-> IF Truthy(ss["newsfeed_reelsFeedId"])
               THEN ParseInt(ss["newsfeed_reelsFeedId"]) ELSE NullId]

InitialSavedPostIds(ss) ==
    IF Truthy(ss["newsfeed_savedPostIds"])
    THEN NewSet(JSONParse(ss["newsfeed_savedPostIds"])) ELSE <<>>

InitialIsPolling(ss) == ss["newsfeed_isPolling"] = "true"

\* The persistence effects of the page (part_002 lines 87-134).
PersistFilters(ss, f) ==
    [ss EXCEPT !["newsfeed_activeFilter"] = IF Truthy(f.posts) THEN f.posts ELSE Null,
               !["newsfeed_reelsFilter"] = IF Truthy(f.reels) THEN f.reels ELSE Null]

\* PersistFeedIds with the two keys exchanged.
PersistFeedIds_KeysExchanged(ss, ids) ==
    [ss EXCEPT !["newsfeed_reelsFeedId"] =
                    IF ids.posts # NullId THEN NumberToString(ids.posts.v) ELSE Null,
               !["newsfeed_currentFeedId"] =
                    IF ids.reels # NullId THEN NumberToString(ids.reels.v) ELSE Null]

PersistFeedIds(ss, ids) ==
    [ss EXCEPT !["newsfeed_currentFeedId"] =
                    IF ids.posts # NullId THEN NumberToString(ids.posts.v) ELSE Null,
               !["newsfeed_reelsFeedId"] =
                    IF ids.reels # NullId THEN NumberToString(ids.reels.v) ELSE Null]

PersistSavedPostIds(ss, set) ==
    [ss EXCEPT !["newsfeed_savedPostIds"] = JSONStringify(set)]

PersistIsPolling(ss, b) ==
    [ss EXCEPT !["newsfeed_isPolling"] = BooleanToString(b)]

PersistContentType(ss, type) == [ss EXCEPT !["newsfeed_contentType"] = type]

\* The effects of a state of primitive type run when the value has changed.
EffectIsPolling(ss, old, new) ==
    IF old # new THEN PersistIsPolling(ss, new) ELSE ss

EffectContentType(ss, old, new) ==
    IF old # new THEN PersistContentType(ss, new) ELSE ss

\* All five effects run when the page is mounted.
MountEffects(ss, type, f, ids, set, b) ==
    PersistContentType(
        PersistIsPolling(
            PersistSavedPostIds(PersistFeedIds(PersistFilters(ss, f), ids), set),
            b),
        type)

\* A tab that has not shown the page yet.
EmptyStorage == [k \in StorageKeys |-> Null]

\* The page is mounted on sessionStorage `ss`.
Mount(ss) ==
    /\ contentType' = InitialContentType(ss)
    /\ prompts' = InitialPrompts
    /\ filters' = InitialFilters(ss)
    /\ feedIds' = InitialFeedIds(ss)
    /\ savedPostIds' = InitialSavedPostIds(ss)
    /\ isPolling' = InitialIsPolling(ss)
    /\ sessionStorage' =
            MountEffects(ss, InitialContentType(ss), InitialFilters(ss),
                         InitialFeedIds(ss), InitialSavedPostIds(ss),
                         InitialIsPolling(ss))
    /\ inflight' = {}

\* A task of the page, with the requests it issued.
PageTask(kind, requests) == [NoTask EXCEPT !.kind = kind, !.queue = requests]

Init ==
    /\ localStorage \in
          {[k \in Keys |-> IF k = "accessToken" THEN a ELSE r] :
              a \in InitialAccessTokens \cup {Null}, r \in RefreshTokens \cup {Null}}
    /\ isRefreshing = FALSE
    /\ failedQueue = <<>>
    /\ req = [c \in Calls |-> NewCall]
    /\ refreshPosts = {}
    /\ microtasks = <<>>
    /\ redirects = 0
    /\ refreshCount = 0
    /\ last = NoTask
    /\ contentType = InitialContentType(EmptyStorage)
    /\ prompts = InitialPrompts
    /\ filters = InitialFilters(EmptyStorage)
    /\ feedIds = InitialFeedIds(EmptyStorage)
    /\ savedPostIds = InitialSavedPostIds(EmptyStorage)
    /\ isPolling = InitialIsPolling(EmptyStorage)
    /\ sessionStorage =
            MountEffects(EmptyStorage, InitialContentType(EmptyStorage),
                         InitialFilters(EmptyStorage),
                         InitialFeedIds(EmptyStorage),
                         InitialSavedPostIds(EmptyStorage),
                         InitialIsPolling(EmptyStorage))
    /\ inflight = {}

-----------------------------------------------------------------------------
\* axiosInstance(config), from the request interceptor on: the header is set
\* from the token store and the call goes out.
Dispatch(config, ls) ==
    [RequestInterceptor(config, ls) EXCEPT !.st = "sent", !.sent = @ + 1,
                                           !.resp = 0]

\* The application issues call c to `url`.  Calls are numbered in the order
\* in which they are issued.
Issue(c, url) ==
    /\ microtasks = <<>>
    /\ req[c].st = "new"
    /\ \A d \in 1..(c - 1) : req[d].st # "new"
    /\ req' = [req EXCEPT ![c] = Dispatch([NewCall EXCEPT !.url = url],
                                          localStorage)]
    /\ last' = NoTask
    /\ UNCHANGED <<pageVars, localStorage, isRefreshing, failedQueue, refreshPosts,
                   microtasks, redirects, refreshCount>>

\* Response interceptor, success handler (part_001 line 70).
Fulfilled(c) ==
    /\ microtasks = <<>>
    /\ req[c].st = "sent"
    /\ req' = [req EXCEPT ![c].st = "scheduled", ![c].resp = 200]
    /\ microtasks' = <<[kind |-> "resolve", id |-> c, err |-> NoError]>>
    /\ last' = NoTask
    /\ UNCHANGED <<pageVars, localStorage, isRefreshing, failedQueue, refreshPosts,
                   redirects, refreshCount>>

\* return Promise.reject(error) of lines 83 and 144.
RejectCall(c, error) ==
    /\ req' = [req EXCEPT ![c].st = "scheduled", ![c].resp = error.status]
    /\ microtasks' = <<[kind |-> "reject", id |-> c, err |-> error]>>
    /\ last' = NoTask
    /\ UNCHANGED <<pageVars, localStorage, isRefreshing, failedQueue, refreshPosts,
                   redirects, refreshCount>>

\* Enqueue with a promise that is resolved at once instead of being queued.
Enqueue_RetryAtOnce(c) ==
    /\ req' = [req EXCEPT ![c].st = "scheduled", ![c].resp = 401]
    /\ microtasks' = <<[kind |-> "retry", id |-> c, err |-> NoError]>>
    /\ last' = NoTask
    /\ UNCHANGED <<pageVars, localStorage, isRefreshing, failedQueue, refreshPosts,
                   redirects, refreshCount>>

\* Lines 86-98: the call waits in failedQueue for the refresh in flight.
Enqueue(c) ==
    /\ failedQueue' = Append(failedQueue, c)
    /\ req' = [req EXCEPT ![c].st = "queued", ![c].resp = 401]
    /\ last' = NoTask
    /\ UNCHANGED <<pageVars, localStorage, isRefreshing, refreshPosts, microtasks,
                   redirects, refreshCount>>

\* The refresh call sent through the intercepted client: the request
\* interceptor attaches the access token.
RefreshPost_Intercepted(c, refreshToken, n) ==
    [by |-> c, refresh |-> refreshToken, n |-> n,
     auth |-> IF Truthy(getAccessToken(localStorage))
              THEN Bearer(getAccessToken(localStorage)) ELSE Null]

\* Lines 116-118: the n-th refresh call, started by call c.  It is sent with
\* plain axios.post: its body holds the refresh token and no interceptor of
\* axiosInstance sees it, so it has no Authorization header.
RefreshPost(c, refreshToken, n) ==
    [by |-> c, refresh |-> refreshToken, n |-> n, auth |-> Null]

\* A session-terminal outcome finds these calls out on the network.
MarkTerminal(f) ==
    [d \in Calls |-> IF f[d].st = "sent" THEN [f[d] EXCEPT !.term = TRUE] ELSE f[d]]

\* The calls of `queue` leave the queue: their reactions are scheduled.
Unqueue(f, queue) ==
    [d \in Calls |->
        IF d \in Elems(queue) THEN [f[d] EXCEPT !.st = "scheduled"] ELSE f[d]]

\* NoRefreshToken without line 109 (isRefreshing = false).
NoRefreshToken_FlagLeftUp(c, error) ==
    /\ localStorage' = clearTokens(localStorage)
    /\ microtasks' = processQueue(failedQueue, NoRefreshTokenError)
                     \o <<[kind |-> "reject", id |-> c, err |-> error]>>
    /\ failedQueue' = <<>>
    /\ isRefreshing' = TRUE
    /\ redirects' = redirects + 1
    /\ req' = Unqueue(MarkTerminal([req EXCEPT ![c].retry = TRUE,
                                               ![c].st = "scheduled",
                                               ![c].resp = 401]),
                      failedQueue)
    /\ last' = Task("no_refresh_token", c, Null)
    /\ UNCHANGED <<pageVars, refreshPosts, refreshCount>>

\* Lines 105-113: no refresh token is stored.
NoRefreshToken(c, error) ==
    /\ localStorage' = clearTokens(localStorage)
    /\ microtasks' = processQueue(failedQueue, NoRefreshTokenError)
                     \o <<[kind |-> "reject", id |-> c, err |-> error]>>
    /\ failedQueue' = <<>>
    /\ isRefreshing' = FALSE
    /\ redirects' = redirects + 1
    /\ req' = Unqueue(MarkTerminal([req EXCEPT ![c].retry = TRUE,
                                               ![c].st = "scheduled",
                                               ![c].resp = 401]),
                      failedQueue)
    /\ last' = Task("no_refresh_token", c, Null)
    /\ UNCHANGED <<pageVars, refreshPosts, refreshCount>>

\* PostRefresh without line 101 (isRefreshing = true).
PostRefresh_FlagNotRaised(c, refreshToken) ==
    /\ isRefreshing' = isRefreshing
    /\ refreshPosts' = refreshPosts \cup {RefreshPost(c, refreshToken, refreshCount + 1)}
    /\ refreshCount' = refreshCount + 1
    /\ req' = [req EXCEPT ![c].retry = TRUE, ![c].st = "awaiting",
                          ![c].resp = 401]
    /\ last' = NoTask
    /\ UNCHANGED <<pageVars, localStorage, failedQueue, microtasks, redirects>>

\* PostRefresh without line 100 (originalRequest._retry = true).
PostRefresh_NotMarked(c, refreshToken) ==
    /\ isRefreshing' = TRUE
    /\ refreshPosts' = refreshPosts \cup {RefreshPost(c, refreshToken, refreshCount + 1)}
    /\ refreshCount' = refreshCount + 1
    /\ req' = [req EXCEPT ![c].st = "awaiting", ![c].resp = 401]
    /\ last' = NoTask
    /\ UNCHANGED <<pageVars, localStorage, failedQueue, microtasks, redirects>>

\* Lines 100-101 and 115-119: the call is marked, the flag is raised, the
\* refresh call goes out and the handler waits for it.
PostRefresh(c, refreshToken) ==
    /\ isRefreshing' = TRUE
    /\ refreshPosts' = refreshPosts \cup {RefreshPost(c, refreshToken, refreshCount + 1)}
    /\ refreshCount' = refreshCount + 1
    /\ req' = [req EXCEPT ![c].retry = TRUE, ![c].st = "awaiting",
                          ![c].resp = 401]
    /\ last' = NoTask
    /\ UNCHANGED <<pageVars, localStorage, failedQueue, microtasks, redirects>>

\* StartRefresh without the test of line 105.
StartRefresh_NoTokenTest(c, error) ==
    PostRefresh(c, getRefreshToken(localStorage))

\* StartRefresh that sends the call again at once when the access token has
\* been renewed since the call went out.
StartRefresh_RenewedTokenReused(c, error) ==
    LET refreshToken == getRefreshToken(localStorage)
    IN  IF Truthy(getAccessToken(localStorage))
            /\ req[c].auth # Bearer(getAccessToken(localStorage))
        THEN /\ req' = [req EXCEPT ![c].retry = TRUE, ![c].st = "scheduled",
                                   ![c].resp = 401]
             /\ microtasks' = <<[kind |-> "request", id |-> c, err |-> NoError]>>
             /\ last' = NoTask
             /\ UNCHANGED <<pageVars, localStorage, isRefreshing, failedQueue,
                            refreshPosts, redirects, refreshCount>>
        ELSE IF ~Truthy(refreshToken)
             THEN NoRefreshToken(c, error)
             ELSE PostRefresh(c, refreshToken)

\* Lines 100-119.
StartRefresh(c, error) ==
    LET refreshToken == getRefreshToken(localStorage)
    IN  IF ~Truthy(refreshToken)
        THEN NoRefreshToken(c, error)
        ELSE PostRefresh(c, refreshToken)

\* Rejected without the test of line 86: the call is queued in Idle too.
Rejected_QueuesInIdle(c, status) ==
    /\ microtasks = <<>>
    /\ req[c].st = "sent"
    /\ LET error == CallError(c, status)
           originalRequest == req[c]
       IN  IF status = 401 /\ ~originalRequest.retry
           THEN IF isAuthEndpoint(originalRequest.url)
                THEN RejectCall(c, error)
                ELSE Enqueue(c)
           ELSE RejectCall(c, error)

\* Rejected without the status test of line 75: every failure of a call that
\* is not marked is treated as a 401.
Rejected_AnyStatus(c, status) ==
    /\ microtasks = <<>>
    /\ req[c].st = "sent"
    /\ LET error == CallError(c, status)
           originalRequest == req[c]
       IN  IF ~originalRequest.retry
           THEN IF isAuthEndpoint(originalRequest.url)
                THEN RejectCall(c, error)
                ELSE IF isRefreshing
                     THEN Enqueue(c)
                     ELSE StartRefresh(c, error)
           ELSE RejectCall(c, error)

\* Rejected without the test of _retry in line 75.
Rejected_RetryMarkIgnored(c, status) ==
    /\ microtasks = <<>>
    /\ req[c].st = "sent"
    /\ LET error == CallError(c, status)
           originalRequest == req[c]
       IN  IF status = 401
           THEN IF isAuthEndpoint(originalRequest.url)
                THEN RejectCall(c, error)
                ELSE IF isRefreshing
                     THEN Enqueue(c)
                     ELSE StartRefresh(c, error)
           ELSE RejectCall(c, error)

\* Response interceptor, error handler (part_001 lines 71-145), up to its
\* first suspension.
Rejected(c, status) ==
    /\ microtasks = <<>>
    /\ req[c].st = "sent"
    /\ LET error == CallError(c, status)
           originalRequest == req[c]
       IN  IF status = 401 /\ ~originalRequest.retry
           THEN IF isAuthEndpoint(originalRequest.url)
                THEN RejectCall(c, error)
                ELSE IF isRefreshing
                     THEN Enqueue(c)
                     ELSE StartRefresh(c, error)
           ELSE RejectCall(c, error)

\* RefreshFulfilled with line 133 rejecting with the 401 of the call instead
\* of sending the call again.
RefreshFulfilled_NoRetry(p, newAccessToken) ==
    /\ microtasks = <<>>
    /\ p \in refreshPosts
    /\ localStorage' = setAccessToken(localStorage, newAccessToken)
    /\ microtasks' = processQueue(failedQueue, NoError)
                     \o <<[kind |-> "reject", id |-> p.by,
                           err |-> CallError(p.by, 401)]>>
    /\ failedQueue' = <<>>
    /\ isRefreshing' = FALSE
    /\ refreshPosts' = refreshPosts \ {p}
    /\ req' = Unqueue([req EXCEPT ![p.by].auth = Bearer(newAccessToken),
                                  ![p.by].st = "scheduled"],
                      failedQueue)
    /\ last' = Task("refresh_fulfilled", p.by, newAccessToken)
    /\ UNCHANGED <<pageVars, redirects, refreshCount>>

\* Lines 121-133: the refresh call of call p.by succeeded; response.data.access
\* is `newAccessToken`.
RefreshFulfilled(p, newAccessToken) ==
    /\ microtasks = <<>>
    /\ p \in refreshPosts
    /\ localStorage' = setAccessToken(localStorage, newAccessToken)
    /\ microtasks' = processQueue(failedQueue, NoError)
                     \o <<[kind |-> "request", id |-> p.by, err |-> NoError]>>
    /\ failedQueue' = <<>>
    /\ isRefreshing' = FALSE
    /\ refreshPosts' = refreshPosts \ {p}
    /\ req' = Unqueue([req EXCEPT ![p.by].auth = Bearer(newAccessToken),
                                  ![p.by].st = "scheduled"],
                      failedQueue)
    /\ last' = Task("refresh_fulfilled", p.by, newAccessToken)
    /\ UNCHANGED <<pageVars, redirects, refreshCount>>

\* RefreshRejected without line 138 (isRefreshing = false).
RefreshRejected_FlagLeftUp(p, status) ==
    /\ microtasks = <<>>
    /\ p \in refreshPosts
    /\ LET refreshError == RefreshError(p.by, status)
       IN  microtasks' = processQueue(failedQueue, refreshError)
                         \o <<[kind |-> "reject", id |-> p.by,
                               err |-> refreshError]>>
    /\ failedQueue' = <<>>
    /\ localStorage' = clearTokens(localStorage)
    /\ isRefreshing' = isRefreshing
    /\ redirects' = redirects + 1
    /\ refreshPosts' = refreshPosts \ {p}
    /\ req' = Unqueue(MarkTerminal([req EXCEPT ![p.by].st = "scheduled"]),
                      failedQueue)
    /\ last' = Task("refresh_rejected", p.by, Null)
    /\ UNCHANGED <<pageVars, refreshCount>>

\* Lines 134-141: the refresh call of call p.by failed with `status`.
RefreshRejected(p, status) ==
    /\ microtasks = <<>>
    /\ p \in refreshPosts
    /\ LET refreshError == RefreshError(p.by, status)
       IN  microtasks' = processQueue(failedQueue, refreshError)
                         \o <<[kind |-> "reject", id |-> p.by,
                               err |-> refreshError]>>
    /\ failedQueue' = <<>>
    /\ localStorage' = clearTokens(localStorage)
    /\ isRefreshing' = FALSE
    /\ redirects' = redirects + 1
    /\ refreshPosts' = refreshPosts \ {p}
    /\ req' = Unqueue(MarkTerminal([req EXCEPT ![p.by].st = "scheduled"]),
                      failedQueue)
    /\ last' = Task("refresh_rejected", p.by, Null)
    /\ UNCHANGED <<pageVars, refreshCount>>

-----------------------------------------------------------------------------
\* Promise reactions.

\* The caller's promise is fulfilled.
RunResolve ==
    /\ microtasks # <<>>
    /\ Head(microtasks).kind = "resolve"
    /\ req' = [req EXCEPT ![Head(microtasks).id] = Settled(@, "resolved")]
    /\ microtasks' = Tail(microtasks)
    /\ UNCHANGED <<pageVars, localStorage, isRefreshing, failedQueue, refreshPosts,
                   redirects, refreshCount, last>>

\* RunReject with a catch that returns the error instead of rejecting with it.
RunReject_Swallowed ==
    /\ microtasks # <<>>
    /\ Head(microtasks).kind = "reject"
    /\ req' = [req EXCEPT ![Head(microtasks).id] = Settled(@, "resolved")]
    /\ microtasks' = Tail(microtasks)
    /\ UNCHANGED <<pageVars, localStorage, isRefreshing, failedQueue, refreshPosts,
                   redirects, refreshCount, last>>

\* The caller's promise is rejected with Head(microtasks).err (the catch of
\* line 97 passes the rejection of a queued call on).
RunReject ==
    /\ microtasks # <<>>
    /\ Head(microtasks).kind = "reject"
    /\ req' = [req EXCEPT ![Head(microtasks).id] = Settled(@, "rejected")]
    /\ microtasks' = Tail(microtasks)
    /\ UNCHANGED <<pageVars, localStorage, isRefreshing, failedQueue, refreshPosts,
                   redirects, refreshCount, last>>

\* Lines 91-96: the then-callback of a queued call.
RunRetry ==
    /\ microtasks # <<>>
    /\ Head(microtasks).kind = "retry"
    /\ req' = [req EXCEPT ![Head(microtasks).id].auth =
                              Bearer(getAccessToken(localStorage))]
    /\ microtasks' = Append(Tail(microtasks),
                            [kind |-> "request", id |-> Head(microtasks).id,
                             err |-> NoError])
    /\ UNCHANGED <<pageVars, localStorage, isRefreshing, failedQueue, refreshPosts,
                   redirects, refreshCount, last>>

\* axiosInstance(originalRequest) of lines 95 and 133.
RunRequest ==
    /\ microtasks # <<>>
    /\ Head(microtasks).kind = "request"
    /\ req' = [req EXCEPT ![Head(microtasks).id] = Dispatch(@, localStorage)]
    /\ microtasks' = Tail(microtasks)
    /\ UNCHANGED <<pageVars, localStorage, isRefreshing, failedQueue, refreshPosts,
                   redirects, refreshCount, last>>

-----------------------------------------------------------------------------
Next ==
    \/ \E c \in Calls, url \in Urls : Issue(c, url)
    \/ \E c \in Calls : Fulfilled(c)
    \/ \E c \in Calls, status \in FailureStatuses : Rejected(c, status)
    \/ \E p \in refreshPosts : RefreshFulfilled(p, MintedToken(p.n))
    \/ \E p \in refreshPosts, status \in FailureStatuses : RefreshRejected(p, status)
    \/ RunResolve
    \/ RunReject
    \/ RunRetry
    \/ RunRequest

Spec == Init /\ [][Next]_vars

-----------------------------------------------------------------------------
\* The token store on its own (part_001 lines 14-37), as the pages of the
\* application call it.

\* The arguments of the setters: string | null.
StoreArguments ==
    InitialAccessTokens \cup RefreshTokens
        \cup {MintedToken(n) : n \in 1..NumStoreTokens} \cup {"", Null}

\* A call of the token store, with its argument or its result.
StoreCall(kind, tok) == [NoTask EXCEPT !.kind = kind, !.tok = tok]

CallSetAccessToken(token) ==
    /\ localStorage' = setAccessToken(localStorage, token)
    /\ last' = StoreCall("setAccessToken", token)
    /\ UNCHANGED <<pageVars, isRefreshing, failedQueue, req, refreshPosts, microtasks,
                   redirects, refreshCount>>

CallSetRefreshToken(token) ==
    /\ localStorage' = setRefreshToken(localStorage, token)
    /\ last' = StoreCall("setRefreshToken", token)
    /\ UNCHANGED <<pageVars, isRefreshing, failedQueue, req, refreshPosts, microtasks,
                   redirects, refreshCount>>

CallClearTokens ==
    /\ localStorage' = clearTokens(localStorage)
    /\ last' = StoreCall("clearTokens", Null)
    /\ UNCHANGED <<pageVars, isRefreshing, failedQueue, req, refreshPosts, microtasks,
                   redirects, refreshCount>>

CallGetAccessToken ==
    /\ last' = StoreCall("getAccessToken", getAccessToken(localStorage))
    /\ UNCHANGED <<pageVars, localStorage, isRefreshing, failedQueue, req, refreshPosts,
                   microtasks, redirects, refreshCount>>

CallGetRefreshToken ==
    /\ last' = StoreCall("getRefreshToken", getRefreshToken(localStorage))
    /\ UNCHANGED <<pageVars, localStorage, isRefreshing, failedQueue, req, refreshPosts,
                   microtasks, redirects, refreshCount>>

StoreNext ==
    \/ \E token \in StoreArguments : CallSetAccessToken(token)
    \/ \E token \in StoreArguments : CallSetRefreshToken(token)
    \/ CallClearTokens
    \/ CallGetAccessToken
    \/ CallGetRefreshToken

StoreSpec == Init /\ [][StoreNext]_vars

-----------------------------------------------------------------------------
\* The handlers of the newsfeed page (part_002 lines 193-290 and the controls
\* of lines 300-365 that call them).  A handler that sets state is followed
\* by the render and by the effects of lines 87-134 whose state it set.

\* A request whose answer a handler of the page waits for.
CreateFeedRequest(type, prompt) ==
    [kind |-> "createFeed", type |-> type, prompt |-> prompt, postId |-> 0]

SavePostRequest(postId) ==
    [kind |-> "savePost", type |-> "", prompt |-> "", postId |-> postId]

\* A request the page does not wait for: refreshFeed / refreshVideoFeed.
RefreshFeedRequest(type, id) ==
    [kind |-> "refreshFeed", type |-> type, prompt |-> "", postId |-> id]

\* if (currentFeedId) of a number | null.
TruthyId(id) == id.t = "number" /\ id.v # 0

\* isSaving of useSavePost: a save request is pending.
isSaving == \E r \in inflight : r.kind = "savePost"

\* The value undefined, and the boolean false where a number can stand.
Undefined == [t |-> "undefined", v |-> 0]
False == [t |-> "boolean", v |-> 0]

\* A number that is truthy.
TruthyNumber(x) == x.t = "number" /\ x.v # 0

\* The options the page passes to the item query of content type `type`
\* (part_002 lines 137-152).
QueryOptions(type) ==
    [enabled |-> feedIds[type] # NullId /\ contentType = type /\ isPolling,
     refetchInterval |->
        IF feedIds[type] # NullId /\ contentType = type /\ isPolling
        THEN Num(PollInterval) ELSE Undefined]

\* useFeedItems that leaves options.enabled out.
useFeedItems_OptionIgnored(feedId, options) ==
    [queryKey |-> <<"feedItems", feedId>>,
     enabled |-> feedId # NullId,
     refetchInterval |-> IF TruthyNumber(options.refetchInterval)
                         THEN options.refetchInterval ELSE False]

\* useFeedItems (part_000 lines 98-109): the query it sets up.
useFeedItems(feedId, options) ==
    [queryKey |-> <<"feedItems", feedId>>,
     enabled |-> options.enabled # FALSE /\ feedId # NullId,
     refetchInterval |-> IF TruthyNumber(options.refetchInterval)
                         THEN options.refetchInterval ELSE False]

\* useVideoFeedItems (part_000 lines 112-123).
useVideoFeedItems(feedId, options) ==
    [queryKey |-> <<"videoFeedItems", feedId>>,
     enabled |-> options.enabled # FALSE /\ feedId # NullId,
     refetchInterval |-> IF TruthyNumber(options.refetchInterval)
                         THEN options.refetchInterval ELSE False]

\* The item query of content type `type` in the current render.
ItemQuery(type) ==
    IF type = "posts" THEN useFeedItems(feedIds.posts, QueryOptions("posts"))
    ELSE useVideoFeedItems(feedIds.reels, QueryOptions("reels"))

\* The request of an item query: getFeedItems / getVideoFeedItems.
ItemsRequest(type, id) ==
    [kind |-> "getItems", type |-> type, prompt |-> "", postId |-> id.v]

\* An item query of the page fetches: on its interval, or when it is enabled.
QueryFetches(type) ==
    /\ ItemQuery(type).enabled
    /\ last' = PageTask("query_fetch",
                        <<ItemsRequest(type, ItemQuery(type).queryKey[2])>>)
    /\ UNCHANGED <<clientVars, pageVars>>

\* onChange of the prompt box (line 325), shown while no filter is active.
ChangePrompt(val) ==
    /\ ~Truthy(filters[contentType])
    /\ prompts' = [prompts EXCEPT ![contentType] = val]
    /\ last' = PageTask("change_prompt", <<>>)
    /\ UNCHANGED <<clientVars, contentType, filters, feedIds, savedPostIds,
                   isPolling, sessionStorage, inflight>>

\* The content type buttons (lines 352-362).
SwitchContentType(type) ==
    /\ contentType' = type
    /\ sessionStorage' = EffectContentType(sessionStorage, contentType, type)
    /\ last' = PageTask("switch_content_type", <<>>)
    /\ UNCHANGED <<clientVars, prompts, filters, feedIds, savedPostIds,
                   isPolling, inflight>>

\* handleSubmitPrompt up to its await (lines 247-267), from the Apply button
\* or the prompt box, both shown while no filter is active.
SubmitPrompt ==
    /\ ~Truthy(filters[contentType])
    /\ IF Trim(prompts[contentType]) = ""
       THEN /\ last' = PageTask("submit_blank", <<>>)
            /\ UNCHANGED inflight
       ELSE /\ Cardinality(inflight) < MaxInflight
            /\ inflight' = inflight \cup
                    {CreateFeedRequest(contentType, prompts[contentType])}
            /\ last' = PageTask("submit", <<>>)
    /\ UNCHANGED <<clientVars, contentType, prompts, filters, feedIds,
                   savedPostIds, isPolling, sessionStorage>>

\* handleSubmitPrompt after its await, had its setters read the content type
\* at the time they run, not the one of the render that submitted.
CreateFeedFulfilled_CurrentType(r, id) ==
    /\ r \in inflight
    /\ r.kind = "createFeed"
    /\ inflight' = inflight \ {r}
    /\ feedIds' = [feedIds EXCEPT ![contentType] = Num(id)]
    /\ filters' = [filters EXCEPT ![contentType] = r.prompt]
    /\ isPolling' = TRUE
    /\ sessionStorage' =
            EffectIsPolling(
                PersistFeedIds(PersistFilters(sessionStorage, filters'),
                               feedIds'),
                isPolling, TRUE)
    /\ last' = PageTask("create_fulfilled", <<RefreshFeedRequest(r.type, id)>>)
    /\ UNCHANGED <<clientVars, contentType, prompts, savedPostIds>>

\* handleSubmitPrompt after its await, the feed created with identifier `id`
\* (lines 259-277).  The setters are those of the render in which the prompt
\* was submitted: they write under the content type selected then.
CreateFeedFulfilled(r, id) ==
    /\ r \in inflight
    /\ r.kind = "createFeed"
    /\ inflight' = inflight \ {r}
    /\ feedIds' = [feedIds EXCEPT ![r.type] = Num(id)]
    /\ filters' = [filters EXCEPT ![r.type] = r.prompt]
    /\ isPolling' = TRUE
    /\ sessionStorage' =
            EffectIsPolling(
                PersistFeedIds(PersistFilters(sessionStorage, filters'),
                               feedIds'),
                isPolling, TRUE)
    /\ last' = PageTask("create_fulfilled", <<RefreshFeedRequest(r.type, id)>>)
    /\ UNCHANGED <<clientVars, contentType, prompts, savedPostIds>>

\* handleSubmitPrompt after its await, the creation failed (lines 279-281).
CreateFeedRejected(r) ==
    /\ r \in inflight
    /\ r.kind = "createFeed"
    /\ inflight' = inflight \ {r}
    /\ last' = PageTask("create_rejected", <<>>)
    /\ UNCHANGED <<clientVars, contentType, prompts, filters, feedIds,
                   savedPostIds, isPolling, sessionStorage>>

\* handleClearFilter, had it reset the state of every content type.
ClearFilter_EveryType ==
    /\ Truthy(filters[contentType])
    /\ filters' = [type \in ContentTypes |-> ""]
    /\ prompts' = [type \in ContentTypes |-> ""]
    /\ feedIds' = [type \in ContentTypes |-> NullId]
    /\ isPolling' = FALSE
    /\ sessionStorage' =
            EffectIsPolling(
                PersistFeedIds(PersistFilters(sessionStorage, filters'),
                               feedIds'),
                isPolling, FALSE)
    /\ last' = PageTask("clear_filter", <<>>)
    /\ UNCHANGED <<clientVars, contentType, savedPostIds, inflight>>

\* handleClearFilter (lines 284-290), from the button shown with the filter.
ClearFilter ==
    /\ Truthy(filters[contentType])
    /\ filters' = [filters EXCEPT ![contentType] = ""]
    /\ prompts' = [prompts EXCEPT ![contentType] = ""]
    /\ feedIds' = [feedIds EXCEPT ![contentType] = NullId]
    /\ isPolling' = FALSE
    /\ sessionStorage' =
            EffectIsPolling(
                PersistFeedIds(PersistFilters(sessionStorage, filters'),
                               feedIds'),
                isPolling, FALSE)
    /\ last' = PageTask("clear_filter", <<>>)
    /\ UNCHANGED <<clientVars, contentType, savedPostIds, inflight>>

\* handleManualRefresh (lines 231-241), had it turned polling on without
\* looking for a feed id.
handleManualRefresh_PollsWithoutFeed ==
    /\ isPolling' = TRUE
    /\ IF TruthyId(feedIds[contentType])
       THEN last' = PageTask("manual_refresh",
                    <<RefreshFeedRequest(contentType, feedIds[contentType].v)>>)
       ELSE last' = PageTask("manual_refresh", <<>>)
    /\ sessionStorage' = EffectIsPolling(sessionStorage, isPolling, isPolling')
    /\ UNCHANGED <<clientVars, contentType, prompts, filters, feedIds,
                   savedPostIds, inflight>>

\* handleManualRefresh (lines 231-241).
handleManualRefresh ==
    /\ IF TruthyId(feedIds[contentType])
       THEN /\ isPolling' = TRUE
            /\ last' = PageTask("manual_refresh",
                    <<RefreshFeedRequest(contentType, feedIds[contentType].v)>>)
       ELSE /\ isPolling' = isPolling
            /\ last' = PageTask("manual_refresh", <<>>)
    /\ sessionStorage' = EffectIsPolling(sessionStorage, isPolling, isPolling')
    /\ UNCHANGED <<clientVars, contentType, prompts, filters, feedIds,
                   savedPostIds, inflight>>

\* handleStopPolling (lines 243-245).
handleStopPolling ==
    /\ isPolling' = FALSE
    /\ sessionStorage' = EffectIsPolling(sessionStorage, isPolling, FALSE)
    /\ last' = PageTask("stop_polling", <<>>)
    /\ UNCHANGED <<clientVars, contentType, prompts, filters, feedIds,
                   savedPostIds, inflight>>

\* The Refresh button of the polling indicator, which is shown while the
\* selected content type is polled (lines 332, 338).
ManualRefresh ==
    /\ isPolling
    /\ TruthyId(feedIds[contentType])
    /\ handleManualRefresh

\* The Stop button of the polling indicator (lines 332, 343).
StopPolling ==
    /\ isPolling
    /\ TruthyId(feedIds[contentType])
    /\ handleStopPolling

\* handleSavePost, had it put the post among the saved ones before the save
\* was answered.
SavePost_AddedAtOnce(postId) ==
    /\ ~isSaving
    /\ IF postId \in Elems(savedPostIds)
       THEN /\ savedPostIds' = SetDelete(savedPostIds, postId)
            /\ sessionStorage' = PersistSavedPostIds(sessionStorage, savedPostIds')
            /\ last' = [PageTask("unsave", <<>>) EXCEPT !.id = postId]
            /\ UNCHANGED inflight
       ELSE /\ Cardinality(inflight) < MaxInflight
            /\ inflight' = inflight \cup {SavePostRequest(postId)}
            /\ savedPostIds' = SetAdd(savedPostIds, postId)
            /\ sessionStorage' = PersistSavedPostIds(sessionStorage, savedPostIds')
            /\ last' = PageTask("save", <<SavePostRequest(postId)>>)
    /\ UNCHANGED <<clientVars, contentType, prompts, filters, feedIds, isPolling>>

\* handleSavePost up to its await (lines 193-205); the button is disabled
\* while a save is pending (line 494).
SavePost(postId) ==
    /\ ~isSaving
    /\ IF postId \in Elems(savedPostIds)
       THEN /\ savedPostIds' = SetDelete(savedPostIds, postId)
            /\ sessionStorage' = PersistSavedPostIds(sessionStorage, savedPostIds')
            /\ last' = [PageTask("unsave", <<>>) EXCEPT !.id = postId]
            /\ UNCHANGED inflight
       ELSE /\ Cardinality(inflight) < MaxInflight
            /\ inflight' = inflight \cup {SavePostRequest(postId)}
            /\ last' = PageTask("save", <<SavePostRequest(postId)>>)
            /\ UNCHANGED <<savedPostIds, sessionStorage>>
    /\ UNCHANGED <<clientVars, contentType, prompts, filters, feedIds, isPolling>>

\* handleSavePost after its await, the post saved (line 206).
SavePostFulfilled(r) ==
    /\ r \in inflight
    /\ r.kind = "savePost"
    /\ inflight' = inflight \ {r}
    /\ savedPostIds' = SetAdd(savedPostIds, r.postId)
    /\ sessionStorage' = PersistSavedPostIds(sessionStorage, savedPostIds')
    /\ last' = PageTask("save_fulfilled", <<>>)
    /\ UNCHANGED <<clientVars, contentType, prompts, filters, feedIds, isPolling>>

\* handleSavePost after its await, the save failed (lines 207-209).
SavePostRejected(r) ==
    /\ r \in inflight
    /\ r.kind = "savePost"
    /\ inflight' = inflight \ {r}
    /\ last' = PageTask("save_rejected", <<>>)
    /\ UNCHANGED <<clientVars, contentType, prompts, filters, feedIds,
                   savedPostIds, isPolling, sessionStorage>>

\* The listener of 'savedItemRemoved' (lines 213-229).
SavedItemRemoved(postId) ==
    /\ savedPostIds' = SetDelete(savedPostIds, postId)
    /\ sessionStorage' = PersistSavedPostIds(sessionStorage, savedPostIds')
    /\ last' = [PageTask("saved_item_removed", <<>>) EXCEPT !.id = postId]
    /\ UNCHANGED <<clientVars, contentType, prompts, filters, feedIds,
                   isPolling, inflight>>

\* The tab is reloaded: the page is mounted again on the sessionStorage of the
\* tab, and the handlers that were waiting are gone.
Reload ==
    /\ Mount(sessionStorage)
    /\ last' = PageTask("reload", <<>>)
    /\ UNCHANGED clientVars

PageNext ==
    \/ \E val \in PromptInputs : ChangePrompt(val)
    \/ \E type \in ContentTypes : SwitchContentType(type)
    \/ SubmitPrompt
    \/ \E r \in inflight, id \in FeedIdValues : CreateFeedFulfilled(r, id)
    \/ \E r \in inflight : CreateFeedRejected(r)
    \/ ClearFilter
    \/ ManualRefresh
    \/ StopPolling
    \/ \E postId \in PostIds : SavePost(postId)
    \/ \E r \in inflight : SavePostFulfilled(r)
    \/ \E r \in inflight : SavePostRejected(r)
    \/ \E postId \in PostIds : SavedItemRemoved(postId)
    \/ \E type \in ContentTypes : QueryFetches(type)
    \/ Reload

\* The page is shown to a user who is signed in.
PageInit ==
    /\ Init
    /\ Truthy(getAccessToken(localStorage))
    /\ Truthy(getRefreshToken(localStorage))

PageSpec == PageInit /\ [][PageNext]_vars

\* The two handlers of the polling indicator as functions of the page state:
\* called in any state of the page, whether or not the indicator is shown.
HandlerNext ==
    \/ PageNext
    \/ handleManualRefresh
    \/ handleStopPolling

HandlerSpec == PageInit /\ [][HandlerNext]_vars

-----------------------------------------------------------------------------
\* Vocabulary of the properties.

\* The refresh call in flight settles, one way or the other.
RefreshSettles ==
    \E p \in refreshPosts :
        \/ RefreshFulfilled(p, MintedToken(p.n))
        \/ \E status \in FailureStatuses : RefreshRejected(p, status)

\* The event loop runs the promise reaction at the head of the queue.
RunReaction == RunResolve \/ RunReject \/ RunRetry \/ RunRequest

\* The steps of a page that issues NumLiveCalls calls.
LiveNext ==
    \/ \E c \in Calls \cap (1..NumLiveCalls), url \in Urls : Issue(c, url)
    \/ \E c \in Calls : Fulfilled(c)
    \/ \E c \in Calls, status \in FailureStatuses : Rejected(c, status)
    \/ RefreshSettles
    \/ RunReaction

\* Spec for the progress properties: the event loop runs every scheduled
\* reaction, and the network answers every refresh call.
FairSpec ==
    Init /\ [][LiveNext]_vars /\ WF_vars(RunReaction) /\ WF_vars(RefreshSettles)

\* The server answers the call that is out, with a success or a failure.
CallAnswered ==
    \E c \in Calls :
        \/ Fulfilled(c)
        \/ \E status \in FailureStatuses : Rejected(c, status)

\* FairSpec with a server that answers every call.
AnsweredSpec == FairSpec /\ WF_vars(CallAnswered)

-----------------------------------------------------------------------------

\* The request path is one of the exempt ones.
ExemptPath(url) ==
    \E sub \in {"/auth/signin", "/auth/register", "/auth/token/refresh"} :
        Includes(url, sub)

\* In this step the error handler of call c dealt with a 401.
Handled401(c) ==
    req[c].st = "sent" /\ req'[c].st # "sent" /\ req'[c].resp = 401

\* In this step call c went out.
Dispatched(c) == req[c].st # "sent" /\ req'[c].st = "sent"

Access == getAccessToken(localStorage)

Refresh == getRefreshToken(localStorage)

-----------------------------------------------------------------------------
\* C1: in every state at most one refresh call is in flight, and a 401 for a
\* non-exempt, not yet retried call that arrives while isRefreshing is true
\* appends the call to the queue and issues no refresh call.
C1_SingleRefreshInFlight ==
    [][/\ Cardinality(refreshPosts') <= 1
       /\ \A c \in Calls :
            (Handled401(c) /\ isRefreshing /\ ~req[c].retry
                /\ ~ExemptPath(req[c].url))
            => /\ failedQueue' = Append(failedQueue, c)
               /\ req'[c].st = "queued"
               /\ refreshPosts' = refreshPosts
               /\ refreshCount' = refreshCount]_vars

\* A call waits in the queue while the refresh call is in flight.
C1_Witness ==
    /\ isRefreshing
    /\ Cardinality(refreshPosts) = 1
    /\ failedQueue # <<>>

\* The calls that wait for the outcome of a refresh call.
Waiting(f) == {c \in Calls : f[c].st \in {"awaiting", "queued"}}

C3_RetriedAtMostOnce == \A c \in Calls : req[c].sent <= 2

\* C4: a 401 for a call to an exempt path is rejected with the error of that
\* call, whatever the coordinator state: no refresh call, no queue entry, no
\* change of the credentials or of isRefreshing, no redirect.
C4_ExemptNeverRefreshes ==
    [][\A c \in Calls :
        (Handled401(c) /\ ExemptPath(req[c].url))
        => /\ req'[c].st = "scheduled"
           /\ microtasks' = <<[kind |-> "reject", id |-> c,
                               err |-> CallError(c, 401)]>>
           /\ c \notin Elems(failedQueue')
           /\ UNCHANGED <<localStorage, isRefreshing, failedQueue,
                          refreshPosts, refreshCount, redirects>>]_vars

\* The 401 of a call to an exempt path is being rejected while a refresh call
\* is in flight.
C4_Witness ==
    \E c \in Calls :
        /\ ExemptPath(req[c].url)
        /\ req[c].resp = 401
        /\ req[c].st = "scheduled"
        /\ isRefreshing
        /\ refreshPosts # {}

\* C5: once a refresh call has failed both credentials read as absent, for
\* every reaction that the failure schedules (the rejections of the queued
\* calls and of the call that started the refresh) and afterwards.
C5_BothClearedAfterFailedRefresh ==
    /\ last.kind = "refresh_rejected" => Access = Null /\ Refresh = Null
    /\ \A i \in 1..Len(microtasks) :
            (microtasks[i].kind = "reject" /\ microtasks[i].err.of = "refresh")
            => Access = Null /\ Refresh = Null

\* A failed refresh call has scheduled the rejections of a queued call and of
\* the call that started it; neither has run yet.
C5_Witness ==
    /\ last.kind = "refresh_rejected"
    /\ Len(microtasks) >= 2
    /\ \A i \in 1..Len(microtasks) : microtasks[i].err.of = "refresh"

\* C6: a successful refresh stores the new access token A', and every call
\* that goes out afterwards (the retry of the call that started the refresh,
\* the retries of the queued calls, a new call) carries Bearer A' as long as
\* A' is the stored access token.
C6_DispatchCarriesNewToken ==
    [][/\ last'.kind = "refresh_fulfilled"
            => getAccessToken(localStorage') = last'.tok
       /\ \A c \in Calls :
            (Dispatched(c) /\ last.kind = "refresh_fulfilled")
            => req'[c].auth = Bearer(last.tok)
       /\ \A c \in Calls :
            (Dispatched(c) /\ Truthy(Access)) => req'[c].auth = Bearer(Access)]_vars

\* After a successful refresh the call that started it and a queued call are
\* out again with the new token.
C6_Witness ==
    /\ last.kind = "refresh_fulfilled"
    /\ microtasks = <<>>
    /\ last.queue # <<>>
    /\ \A c \in {last.id} \cup Elems(last.queue) :
            req[c].st = "sent" /\ req[c].auth = Bearer(last.tok)

\* C7: when the refresh call succeeds, once its reactions have run the new
\* access token is stored, the call that started the refresh and every queued
\* call have gone out exactly once more, with the new token, and the
\* coordinator is Idle with an empty queue.
C7_AllRetriedOnceAfterRefresh ==
    (last.kind = "refresh_fulfilled" /\ microtasks = <<>>)
    => /\ Access = last.tok
       /\ ~isRefreshing
       /\ failedQueue = <<>>
       /\ \A c \in {last.id} \cup Elems(last.queue) :
            /\ req[c].st = "sent"
            /\ req[c].sent = last.sent[c] + 1
            /\ req[c].auth = Bearer(last.tok)

\* Two calls, each sent once, got 401: one started the refresh, one was
\* queued; the refresh succeeded and its reactions have run.
C7_Witness ==
    /\ last.kind = "refresh_fulfilled"
    /\ microtasks = <<>>
    /\ Len(last.queue) = 1
    /\ \A c \in {last.id} \cup Elems(last.queue) :
            last.sent[c] = 1 /\ req[c].sent = 2

\* A non-exempt, not yet retried call gets 401 in Idle and no refresh token is
\* stored.
NoRefreshTokenCase(c) ==
    /\ Handled401(c)
    /\ ~isRefreshing
    /\ ~req[c].retry
    /\ ~ExemptPath(req[c].url)
    /\ ~Truthy(Refresh)

\* The handler of call c ends the session without a refresh call and rejects
\* the call with `error`.
EndsSessionWith(c, error) ==
    /\ getAccessToken(localStorage') = Null
    /\ getRefreshToken(localStorage') = Null
    /\ redirects' = redirects + 1
    /\ refreshPosts' = {}
    /\ refreshCount' = refreshCount
    /\ ~isRefreshing'
    /\ failedQueue' = <<>>
    /\ microtasks' = <<[kind |-> "reject", id |-> c, err |-> error]>>

\* C8 as stated: in that case both credentials are cleared, the redirect is
\* triggered, no refresh call is issued, the coordinator is Idle again, and
\* the call is rejected with the "No refresh token available" error.
C8_RejectedWithNoRefreshTokenError ==
    [][\A c \in Calls :
        NoRefreshTokenCase(c) => EndsSessionWith(c, NoRefreshTokenError)]_vars

\* C8 as amended: the same, but the call is rejected with its own 401 error.
C8_RejectedWithOwn401 ==
    [][\A c \in Calls :
        NoRefreshTokenCase(c) => EndsSessionWith(c, CallError(c, 401))]_vars

\* The handler has just ended the session for want of a refresh token.
C8_Witness ==
    /\ last.kind = "no_refresh_token"
    /\ Len(microtasks) = 1
    /\ Head(microtasks).kind = "reject"
    /\ refreshCount = 0
    /\ redirects = 1

\* The reactions a failed refresh call of call c schedules: the queued calls
\* and then call c are rejected with the refresh error.
RejectionsOf(queue, c, error) ==
    [i \in 1..(Len(queue) + 1) |->
        [kind |-> "reject",
         id |-> IF i <= Len(queue) THEN queue[i] ELSE c,
         err |-> error]]

\* C9: when the refresh call fails, with whatever status, the queued calls
\* and the call that started it are rejected with the refresh error and none
\* of them goes out again, both credentials are cleared, the redirect is
\* triggered, and the coordinator is Idle with an empty queue.
C9_RefreshFailureEndsSession ==
    [][/\ \A p \in refreshPosts :
            (p \notin refreshPosts' /\ last'.kind = "refresh_rejected")
            => /\ \E status \in FailureStatuses :
                    microtasks' = RejectionsOf(failedQueue, p.by,
                                               RefreshError(p.by, status))
               /\ getAccessToken(localStorage') = Null
               /\ getRefreshToken(localStorage') = Null
               /\ redirects' = redirects + 1
               /\ ~isRefreshing'
               /\ failedQueue' = <<>>
       /\ \A c \in Calls :
            (Dispatched(c) /\ last.kind = "refresh_rejected")
            => req[c].st = "new"
       /\ (last'.kind = "refresh_rejected" /\ microtasks' = <<>>)
            => \A c \in {last'.id} \cup Elems(last'.queue) :
                    req'[c].st = "rejected"]_vars

\* A refresh call failed with two calls queued; all three are rejected.
C9_Witness ==
    /\ last.kind = "refresh_rejected"
    /\ microtasks = <<>>
    /\ Len(last.queue) = 2
    /\ \A c \in {last.id} \cup Elems(last.queue) : req[c].st = "rejected"

SessionTerminal == {"no_refresh_token", "refresh_rejected"}

\* C10 as stated: after a session-terminal outcome the queued calls and the
\* call that started the refresh are rejected, and no call that was out on
\* the network at that moment resolves for its caller.
C10_InFlightCallsFail ==
    /\ (last.kind \in SessionTerminal /\ microtasks = <<>>)
        => \A c \in {last.id} \cup Elems(last.queue) : req[c].st = "rejected"
    /\ \A c \in Calls : req[c].term => req[c].st # "resolved"

\* C10 as amended: after a session-terminal outcome the queued calls and the
\* call whose handler reached it are rejected, and a rejected call stays
\* rejected; the outcome leaves the calls that are out on the network as they
\* are, to be settled by their own responses.
C10_QueuedAndInitiatorFail ==
    [][/\ (last'.kind \in SessionTerminal /\ microtasks' = <<>>)
            => \A c \in {last'.id} \cup Elems(last'.queue) :
                    req'[c].st = "rejected"
       /\ \A c \in Calls : req[c].st = "rejected" => req'[c].st = "rejected"
       /\ \A c \in Calls :
            (microtasks = <<>> /\ last'.kind \in SessionTerminal
                /\ req[c].st = "sent" /\ c # last'.id)
            => req'[c].st = "sent" /\ req'[c].term]_vars

\* A refresh call failed with a call queued and another call out on the
\* network: the call that started the refresh and the queued one are rejected,
\* the third is still out.
C10_Witness ==
    /\ last.kind = "refresh_rejected"
    /\ microtasks = <<>>
    /\ Len(last.queue) = 1
    /\ \A c \in {last.id} \cup Elems(last.queue) : req[c].st = "rejected"
    /\ \E c \in Calls : req[c].term /\ req[c].st = "sent"

\* C11: the queue is non-empty only while isRefreshing is true; an entry is
\* appended only by the handler of a 401 that finds isRefreshing true, one
\* call at a time, at the end; and the step in which the refresh call in
\* flight settles empties the whole queue.
C11_QueueOnlyWhileRefreshing ==
    /\ [](~isRefreshing => failedQueue = <<>>)
    /\ [][/\ failedQueue' # failedQueue =>
                \/ failedQueue' = <<>>
                \/ \E c \in Calls :
                     /\ Handled401(c)
                     /\ isRefreshing
                     /\ failedQueue' = Append(failedQueue, c)
          /\ (refreshPosts # {} /\ refreshPosts' = {}) =>
                failedQueue' = <<>> /\ ~isRefreshing'
          /\ (failedQueue # <<>> /\ failedQueue' = <<>>) =>
                refreshPosts # {} /\ refreshPosts' = {}]_vars

\* The refresh call settled with two calls queued, and the queue is empty.
C11_Witness ==
    /\ last.kind \in {"refresh_fulfilled", "refresh_rejected"}
    /\ Len(last.queue) = 2
    /\ failedQueue = <<>>
    /\ ~isRefreshing

\* The reaction that settles the continuation of queued call c (its
\* then-callback or its catch) is scheduled and has not run.
ContinuationPending(c) ==
    \E k \in 1..Len(microtasks) :
        microtasks[k].id = c /\ microtasks[k].kind \in {"retry", "reject"}

\* The place of the reaction of queued call c among the scheduled reactions.
ReactionIndex(c) ==
    CHOOSE k \in 1..Len(microtasks) :
        microtasks[k].id = c /\ microtasks[k].kind \in {"retry", "reject"}

\* Call c is through with the outcome of the refresh: it is out again, or its
\* caller's promise is rejected.
ThroughWith(c) == req[c].st \in {"sent", "rejected"}

\* C12: the continuations queued during one refresh are settled in the order
\* in which they were queued, on success and on failure: of two queued calls
\* the reaction of the earlier one is scheduled ahead of the other's and runs
\* first, and the earlier call is retried, or rejected, first.
C12_QueueSettledInFifoOrder ==
    last.kind \in {"refresh_fulfilled", "refresh_rejected"}
    => \A i, j \in 1..Len(last.queue) :
          i < j =>
            LET a == last.queue[i]
                b == last.queue[j]
            IN  /\ ContinuationPending(a) => ContinuationPending(b)
                /\ ContinuationPending(a) => ReactionIndex(a) < ReactionIndex(b)
                /\ ThroughWith(b) => ThroughWith(a)

\* Of two calls queued behind a refresh that succeeded, the continuation of
\* the first has run and that of the second has not.
C12_Witness ==
    /\ last.kind = "refresh_fulfilled"
    /\ Len(last.queue) = 2
    /\ ~ContinuationPending(last.queue[1])
    /\ ContinuationPending(last.queue[2])

\* The reactions scheduled for call c.
ReactionsOf(c, tasks) == {k \in 1..Len(tasks) : tasks[k].id = c}

\* C13: a non-exempt, not yet retried call gets 401 while a refresh token is
\* stored or a refresh call is in flight.  Nothing is scheduled for its caller:
\* the call waits.  When the refresh call succeeds the one reaction scheduled
\* for the call sends it again, and when the call sent again succeeds the
\* caller's promise is fulfilled with that response.  No rejection is
\* scheduled for the caller on the way, for the call that started the refresh
\* and for a queued call alike.
C13_SilentRecovery ==
    [][\A c \in Calls :
        /\ (Handled401(c) /\ ~ExemptPath(req[c].url) /\ ~req[c].retry
                /\ (isRefreshing \/ Truthy(Refresh)))
            => /\ req'[c].st = (IF isRefreshing THEN "queued" ELSE "awaiting")
               /\ microtasks' = <<>>
        /\ (c \in Waiting(req) /\ req'[c] # req[c])
            => /\ last'.kind \in {"refresh_fulfilled", "refresh_rejected"}
               /\ req'[c].st = "scheduled"
               /\ Cardinality(ReactionsOf(c, microtasks')) = 1
        /\ (c \in Waiting(req) /\ last'.kind = "refresh_fulfilled")
            => \A k \in ReactionsOf(c, microtasks') :
                    microtasks'[k].kind =
                        (IF req[c].st = "queued" THEN "retry" ELSE "request")
        /\ (microtasks # <<>> /\ Head(microtasks).id = c
                /\ Head(microtasks).kind = "retry")
            => /\ req'[c].st = "scheduled"
               /\ \A k \in ReactionsOf(c, microtasks') :
                    microtasks'[k].kind = "request"
               /\ ReactionsOf(c, microtasks') # {}
        /\ (microtasks # <<>> /\ Head(microtasks).id = c
                /\ Head(microtasks).kind = "request")
            => /\ req'[c].st = "sent"
               /\ req'[c].sent = req[c].sent + 1
               /\ ReactionsOf(c, microtasks') = {}
        /\ (req[c].st = "sent" /\ req[c].sent >= 2 /\ req'[c].st # "sent"
                /\ req'[c].resp = 200)
            => microtasks' = <<[kind |-> "resolve", id |-> c, err |-> NoError]>>
        /\ (microtasks # <<>> /\ Head(microtasks).id = c
                /\ Head(microtasks).kind = "resolve")
            => req[c].resp = 200 /\ req'[c].st = "resolved"]_vars

\* After one successful refresh the call that started it is out again, and
\* the queued call, sent again, has succeeded: its caller's promise is about
\* to be fulfilled.
C13_Witness ==
    \E c, d \in Calls :
        /\ req[c].retry /\ req[c].sent = 2 /\ req[c].st = "sent"
        /\ ~req[d].retry /\ req[d].sent = 2 /\ req[d].st = "scheduled"
        /\ req[d].resp = 200
        /\ microtasks = <<[kind |-> "resolve", id |-> d, err |-> NoError]>>
        /\ refreshCount = 1

\* C14: provided every refresh call settles, a coordinator that is Refreshing
\* is Idle again later, so Idle recurs for ever; and every queued continuation
\* is settled and its reaction runs, which sends the call again or rejects it.
C14_AlwaysBackToIdle ==
    /\ isRefreshing ~> ~isRefreshing
    /\ []<>(~isRefreshing /\ failedQueue = <<>>)
    /\ \A c \in Calls :
            (req[c].st = "queued") ~> (req[c].st \in {"sent", "rejected"})

\* The coordinator is Idle again after a refresh cycle in which a call was
\* queued, and the reactions of the cycle have run.
C14_Witness ==
    /\ last.kind \in {"refresh_fulfilled", "refresh_rejected"}
    /\ last.queue # <<>>
    /\ ~isRefreshing
    /\ microtasks = <<>>
    /\ \A c \in Elems(last.queue) : ThroughWith(c)

\* In this step the response interceptor handled the response of call c.
Handled(c) == req[c].st = "sent" /\ req'[c].st # "sent"

\* C15: a failure that is not a 401 (another status, or no response at all)
\* is rejected to the caller with the error of the call, and a success is
\* passed to the caller; either way the credentials, isRefreshing, the queue
\* and the refresh calls are as before and no redirect happens, in Idle and in
\* Refreshing.
C15_OtherResponsesPassThrough ==
    [][\A c \in Calls :
        /\ (Handled(c) /\ req'[c].resp \notin {401, 200})
            => /\ microtasks' = <<[kind |-> "reject", id |-> c,
                                   err |-> CallError(c, req'[c].resp)]>>
               /\ req'[c].st = "scheduled"
               /\ UNCHANGED <<localStorage, isRefreshing, failedQueue,
                              refreshPosts, refreshCount, redirects>>
        /\ (Handled(c) /\ req'[c].resp = 200)
            => /\ microtasks' = <<[kind |-> "resolve", id |-> c,
                                   err |-> NoError]>>
               /\ req'[c].st = "scheduled"
               /\ UNCHANGED <<localStorage, isRefreshing, failedQueue,
                              refreshPosts, refreshCount, redirects>>
        /\ (microtasks # <<>> /\ Head(microtasks).id = c
                /\ Head(microtasks).kind = "reject"
                /\ Head(microtasks).err.of = "call")
            => /\ req'[c].st = "rejected"
               /\ Head(microtasks).err = CallError(c, req[c].resp)
               /\ UNCHANGED <<localStorage, isRefreshing, failedQueue,
                              refreshPosts, refreshCount, redirects>>]_vars

\* A call failed with status 500 while a refresh call is in flight and another
\* call is queued: its rejection is scheduled.
C15_Witness ==
    \E c \in Calls :
        /\ req[c].st = "scheduled"
        /\ req[c].resp = 500
        /\ microtasks = <<[kind |-> "reject", id |-> c,
                           err |-> CallError(c, 500)]>>
        /\ isRefreshing
        /\ failedQueue # <<>>
        /\ Truthy(Access)

\* C16: a 401 for a call that is marked as retried is rejected to the caller
\* with that 401, in Idle and in Refreshing: the call is not queued, no refresh
\* call is issued, the credentials are not cleared, no redirect happens, and
\* isRefreshing and the queue are as before.
C16_Marked401IsRejected ==
    [][\A c \in Calls :
        (Handled401(c) /\ req[c].retry)
        => /\ microtasks' = <<[kind |-> "reject", id |-> c,
                               err |-> CallError(c, 401)]>>
           /\ req'[c].st = "scheduled"
           /\ c \notin Elems(failedQueue')
           /\ localStorage' = localStorage
           /\ isRefreshing' = isRefreshing
           /\ failedQueue' = failedQueue
           /\ refreshPosts' = refreshPosts
           /\ refreshCount' = refreshCount
           /\ redirects' = redirects]_vars

\* The call that started the first refresh was sent again and got 401 again,
\* while a second refresh call, started by another call, is in flight: its
\* rejection is scheduled.
C16_Witness ==
    \E c \in Calls :
        /\ req[c].retry
        /\ req[c].sent = 2
        /\ req[c].st = "scheduled"
        /\ req[c].resp = 401
        /\ microtasks = <<[kind |-> "reject", id |-> c,
                           err |-> CallError(c, 401)]>>
        /\ isRefreshing
        /\ refreshCount = 2

\* C17: a call that goes out while an access token is stored carries Bearer
\* and that token; with none stored its header is left as it was.  Sending a
\* call changes neither the credentials nor isRefreshing nor the queue, and
\* of the call only the header: its path and its mark stay.
C17_DispatchSetsBearerOnly ==
    [][\A c \in Calls :
        Dispatched(c)
        => /\ req'[c].auth = (IF Truthy(Access) THEN "Bearer " \o Access
                              ELSE req[c].auth)
           /\ req[c].st # "new"
                => req'[c].url = req[c].url /\ req'[c].retry = req[c].retry
           /\ req'[c].sent = req[c].sent + 1
           /\ localStorage' = localStorage
           /\ isRefreshing' = isRefreshing
           /\ failedQueue' = failedQueue
           /\ refreshPosts' = refreshPosts]_vars

\* A call is out for the first time with the stored access token in its
\* header, while a refresh call is in flight and an earlier call is queued.
C17_Witness ==
    \E c \in Calls :
        /\ req[c].st = "sent"
        /\ req[c].sent = 1
        /\ Truthy(Access)
        /\ req[c].auth = "Bearer " \o Access
        /\ isRefreshing
        /\ \E d \in Elems(failedQueue) : d < c

\* C18: after setAccessToken(t) with t a non-empty string getAccessToken()
\* returns t, and after setAccessToken(null) it returns null; the same for
\* setRefreshToken and getRefreshToken; a setter leaves the other credential
\* as it was; after clearTokens() both getters return null, and clearing
\* again changes nothing.  A getter returns what is stored and changes nothing.
C18_TokenStoreRoundTrip ==
    [][/\ last'.kind = "setAccessToken"
            => /\ Truthy(last'.tok) => getAccessToken(localStorage') = last'.tok
               /\ last'.tok = Null => getAccessToken(localStorage') = Null
               /\ getRefreshToken(localStorage') = getRefreshToken(localStorage)
       /\ last'.kind = "setRefreshToken"
            => /\ Truthy(last'.tok) => getRefreshToken(localStorage') = last'.tok
               /\ last'.tok = Null => getRefreshToken(localStorage') = Null
               /\ getAccessToken(localStorage') = getAccessToken(localStorage)
       /\ last'.kind = "clearTokens"
            => /\ getAccessToken(localStorage') = Null
               /\ getRefreshToken(localStorage') = Null
               /\ clearTokens(localStorage') = localStorage'
       /\ (last.kind = "setAccessToken" /\ last'.kind = "getAccessToken"
                /\ (Truthy(last.tok) \/ last.tok = Null))
            => last'.tok = last.tok /\ localStorage' = localStorage
       /\ (last.kind = "setRefreshToken" /\ last'.kind = "getRefreshToken"
                /\ (Truthy(last.tok) \/ last.tok = Null))
            => last'.tok = last.tok /\ localStorage' = localStorage
       /\ (last.kind = "clearTokens"
                /\ last'.kind \in {"getAccessToken", "getRefreshToken"})
            => last'.tok = Null /\ localStorage' = localStorage]_vars

\* setRefreshToken has stored a token while a different access token is
\* stored.
C18_Witness ==
    /\ last.kind = "setRefreshToken"
    /\ Truthy(last.tok)
    /\ getRefreshToken(localStorage) = last.tok
    /\ Truthy(getAccessToken(localStorage))
    /\ getAccessToken(localStorage) # last.tok

\* C19: whatever the page has done (prompts submitted, filters cleared,
\* content type switched, polling started and stopped, posts saved and
\* unsaved), the page mounted on the sessionStorage of that moment starts
\* with the same content type, the same filter and feed identifier for each
\* content type, the same polling flag and the same saved post ids; and a
\* reload is such a mount.
C19_ReloadRestoresPage ==
    /\ InitialContentType(sessionStorage) = contentType
    /\ InitialFilters(sessionStorage) = filters
    /\ InitialFeedIds(sessionStorage) = feedIds
    /\ InitialIsPolling(sessionStorage) = isPolling
    /\ InitialSavedPostIds(sessionStorage) = savedPostIds
    /\ Elems(InitialSavedPostIds(sessionStorage)) = Elems(savedPostIds)

\* The page has been reloaded and shows reels, with a filter and a feed for
\* each content type, two saved posts, and polling on.
C19_Witness ==
    /\ last.kind = "reload"
    /\ contentType = "reels"
    /\ Truthy(filters.posts) /\ Truthy(filters.reels)
    /\ TruthyId(feedIds.posts) /\ TruthyId(feedIds.reels)
    /\ feedIds.posts # feedIds.reels
    /\ Len(savedPostIds) = 2
    /\ isPolling

\* The calls whose caller has the outcome.
Done == {c \in Calls : req[c].st \in {"resolved", "rejected"}}

\* C20: whatever the server answers, all 401s included, every refresh call is
\* started by a call that was not marked and is marked from then on until it
\* is settled, so there are never more refresh calls than calls marked or
\* settled, nor than calls issued; a settled call does not go out again; and
\* with a server that answers, every call issued is resolved or rejected and
\* the refreshing and retrying comes to an end.
C20_RefreshesBoundedByCalls ==
    /\ [](/\ refreshCount <= Cardinality({c \in Calls : req[c].st # "new"})
          /\ refreshCount <= Cardinality({c \in Calls : req[c].retry} \cup Done))
    /\ [][/\ refreshCount' # refreshCount
              => /\ refreshCount' = refreshCount + 1
                 /\ \E c \in Calls :
                        req[c].st = "sent" /\ ~req[c].retry /\ req'[c].retry
          /\ \A c \in Calls :
                (req[c].retry /\ c \notin Done') => req'[c].retry
          /\ \A c \in Done : req'[c] = req[c]]_vars
    /\ \A c \in Calls : (req[c].st # "new") ~> (c \in Done)
    /\ <>[](/\ \A c \in Calls : req[c].st = "new" \/ c \in Done
            /\ refreshPosts = {}
            /\ microtasks = <<>>
            /\ ~isRefreshing)

\* Every call started a refresh call of its own, every refresh call succeeded
\* and every call failed again when it was sent again: there were as many
\* refresh calls as calls, and every call is rejected.
C20_Witness ==
    /\ refreshCount = NumLiveCalls
    /\ redirects = 0
    /\ Truthy(Refresh)
    /\ \A c \in 1..NumLiveCalls : req[c].st = "rejected"
    /\ refreshPosts = {}

\* C21: a non-exempt call that is not marked and whose 401 arrives in Idle
\* starts a refresh cycle, whatever access token it went out with and whatever
\* is stored by now: with a refresh token stored it issues the next refresh
\* call, the only one in flight, and waits for it.  Refresh calls follow one
\* another: a new one is issued only when none is in flight.
C21_Late401StartsNextRefresh ==
    [][/\ \A c \in Calls :
            (Handled401(c) /\ ~isRefreshing /\ ~req[c].retry
                /\ ~ExemptPath(req[c].url))
            => /\ req'[c].retry
               /\ Truthy(Refresh)
                    => /\ isRefreshing'
                       /\ refreshCount' = refreshCount + 1
                       /\ \E p \in refreshPosts' :
                            /\ refreshPosts' = {p}
                            /\ p.by = c
                            /\ p.refresh = Refresh
                            /\ p.n = refreshCount + 1
                       /\ req'[c].st = "awaiting"
                       /\ req'[c].auth = req[c].auth
               /\ ~Truthy(Refresh)
                    => refreshCount' = refreshCount /\ redirects' = redirects + 1
       /\ refreshCount' # refreshCount
            => refreshPosts = {} /\ Cardinality(refreshPosts') = 1]_vars

\* A call that went out with the first access token got its 401 after a
\* refresh had stored a newer one, and has started the second refresh call.
C21_Witness ==
    \E c \in Calls :
        /\ req[c].st = "awaiting"
        /\ req[c].sent = 1
        /\ refreshCount = 2
        /\ \E p \in refreshPosts : p.by = c /\ p.refresh = Refresh /\ p.n = 2
        /\ Access = MintedToken(1)
        /\ req[c].auth = Bearer("tok0")

\* C22: the refresh call carries the refresh token and no Authorization
\* header, and the call that started it, marked, waits for it outside the
\* queue.  Its failure, with 401 as with any status, is handled by the branch
\* that ends the session, for the call that started it: right after it no
\* refresh call is in flight, nothing is queued, the coordinator is Idle, the
\* credentials are cleared, and the call that started it is rejected with the
\* error of the refresh call.
C22_RefreshCallOutsideClient ==
    /\ \A p \in refreshPosts :
            /\ p.auth = Null
            /\ Truthy(p.refresh)
            /\ req[p.by].st = "awaiting"
            /\ req[p.by].retry
            /\ p.by \notin Elems(failedQueue)
    /\ last.kind = "refresh_rejected"
        => /\ refreshPosts = {}
           /\ failedQueue = <<>>
           /\ ~isRefreshing
           /\ Access = Null /\ Refresh = Null
           /\ last.id \notin Elems(last.queue)
           /\ req[last.id].st \in {"scheduled", "rejected"}
           /\ req[last.id].st = "scheduled"
                => /\ microtasks # <<>>
                   /\ microtasks[Len(microtasks)].id = last.id
                   /\ microtasks[Len(microtasks)].kind = "reject"
                   /\ microtasks[Len(microtasks)].err.of = "refresh"
                   /\ microtasks[Len(microtasks)].err.id = last.id

\* The one refresh call has failed with 401: the rejection of the call that
\* started it, with the error of the refresh call, is scheduled.
C22_Witness ==
    /\ last.kind = "refresh_rejected"
    /\ Len(microtasks) = 1
    /\ Head(microtasks).err = RefreshError(last.id, 401)
    /\ refreshCount = 1
    /\ redirects = 1

\* C23: a successful refresh stores the new access token and leaves the
\* stored refresh token as it was, the one the refresh call was sent with;
\* every refresh call is sent with the stored refresh token, so the next cycle
\* sends the same one; the stored refresh token changes only when the session
\* ends, and then it is removed.
C23_RefreshTokenKept ==
    [][/\ \A p \in refreshPosts \ refreshPosts' :
            last'.kind = "refresh_fulfilled"
            => /\ getRefreshToken(localStorage') = Refresh
               /\ Refresh = p.refresh
               /\ getAccessToken(localStorage') = MintedToken(p.n)
       /\ \A p \in refreshPosts' \ refreshPosts :
            p.refresh = Refresh /\ getRefreshToken(localStorage') = Refresh
       /\ getRefreshToken(localStorage') # Refresh
            => /\ last'.kind \in SessionTerminal
               /\ getRefreshToken(localStorage') = Null]_vars

\* The first refresh succeeded, and the second refresh call is in flight with
\* the refresh token that is still stored.
C23_Witness ==
    /\ refreshCount = 2
    /\ redirects = 0
    /\ Access = MintedToken(1)
    /\ Truthy(Refresh)
    /\ \E p \in refreshPosts : p.n = 2 /\ p.refresh = Refresh

\* C24: the branch for a missing refresh token finds the queue empty and
\* leaves the coordinator Idle in the task in which it raised the flag: no
\* reaction is ever scheduled with the "No refresh token available" error,
\* and isRefreshing is true only while a refresh call is in flight.
C24_NoRefreshTokenBranchFindsQueueEmpty ==
    /\ last.kind = "no_refresh_token"
        => /\ last.queue = <<>>
           /\ ~isRefreshing
           /\ failedQueue = <<>>
           /\ refreshPosts = {}
    /\ \A i \in 1..Len(microtasks) : microtasks[i].err # NoRefreshTokenError
    /\ isRefreshing <=> refreshPosts # {}

\* The branch has run while another call was out on the network: that call
\* finds the coordinator Idle.
C24_Witness ==
    /\ last.kind = "no_refresh_token"
    /\ last.queue = <<>>
    /\ ~isRefreshing
    /\ \E c \in Calls : c # last.id /\ req[c].st = "sent" /\ req[c].term

\* The page asks for the items of content type `type`: the type is selected,
\* it has a feed, and polling is on.
Polls(type) == contentType = type /\ feedIds[type] # NullId /\ isPolling

\* C25: at most one of the two item queries is enabled; the query of a content
\* type is enabled exactly when that type is selected, has a feed identifier
\* and polling is on, and exactly then its refetch interval is 5000 ms, with
\* no interval otherwise; a query that fetches is the one of the selected
\* type, for the feed of that type.
C25_OneItemQueryEnabled ==
    /\ ~(ItemQuery("posts").enabled /\ ItemQuery("reels").enabled)
    /\ \A type \in ContentTypes :
            /\ ItemQuery(type).enabled <=> Polls(type)
            /\ ItemQuery(type).refetchInterval = Num(5000) <=> Polls(type)
            /\ ~Polls(type) => ItemQuery(type).refetchInterval = False
    /\ last.kind = "query_fetch"
        => /\ Len(last.queue) = 1
           /\ last.queue[1].type = contentType
           /\ Num(last.queue[1].postId) = feedIds[contentType]
           /\ isPolling

\* Both content types have a feed, reels are selected and polling is on: the
\* reels query has fetched, the posts query is disabled.
C25_Witness ==
    /\ last.kind = "query_fetch"
    /\ contentType = "reels"
    /\ feedIds.posts # NullId
    /\ feedIds.reels # NullId
    /\ ItemQuery("reels").enabled
    /\ ~ItemQuery("posts").enabled


\* C26: handleSubmitPrompt with a blank prompt changes nothing and issues no
\* request.  With a prompt that is not blank it asks for one feed of the
\* selected content type.  When the creation fails, the feed identifiers, the
\* filters and the polling flag are unchanged.  When it succeeds, the new feed
\* id and the submitted prompt are stored under the content type that was
\* selected when the prompt was submitted, whatever type is selected by then,
\* the other type's feed id and filter are kept, the polling flag is true and
\* the refresh is asked for the new feed.
C26_SubmitPromptStoresUnderSubmittedType ==
    [][ /\ last'.kind \in {"submit_blank", "submit"}
            => IF Trim(prompts[contentType]) = ""
               THEN /\ UNCHANGED <<pageVars, clientVars>>
                    /\ last'.queue = <<>>
               ELSE /\ inflight' = inflight \cup
                            {[kind |-> "createFeed", type |-> contentType,
                              prompt |-> prompts[contentType], postId |-> 0]}
                    /\ UNCHANGED <<feedIds, filters, isPolling, prompts,
                                   contentType>>
        /\ last'.kind = "create_rejected"
            => UNCHANGED <<feedIds, filters, isPolling, contentType, prompts,
                           savedPostIds, sessionStorage>>
        /\ last'.kind = "create_fulfilled"
            => \E r \in inflight \ inflight' :
                  /\ r.kind = "createFeed"
                  /\ Len(last'.queue) = 1
                  /\ last'.queue[1].kind = "refreshFeed"
                  /\ last'.queue[1].type = r.type
                  /\ feedIds' = [feedIds EXCEPT
                                    ![r.type] = Num(last'.queue[1].postId)]
                  /\ filters' = [filters EXCEPT ![r.type] = r.prompt]
                  /\ isPolling'
                  /\ UNCHANGED <<contentType, prompts>>
      ]_vars

\* A feed of posts has been created while reels were selected: its id and its
\* prompt are under posts, and reels have neither.
C26_Witness ==
    /\ last.kind = "create_fulfilled"
    /\ last.queue[1].type = "posts"
    /\ contentType = "reels"
    /\ feedIds.posts = Num(last.queue[1].postId)
    /\ filters.posts = "cats "
    /\ feedIds.reels = NullId
    /\ filters.reels = ""
    /\ isPolling


\* C27: handleClearFilter resets the filter, the prompt and the feed id of the
\* selected content type, and of that type only: the other type's filter,
\* prompt and feed id are what they were.  The one polling flag becomes false,
\* so that no content type's items are polled any more; the saved posts are
\* unchanged, and no request is issued.
C27_ClearFilterResetsSelectedTypeOnly ==
    [][ last'.kind = "clear_filter"
            => /\ filters'[contentType] = ""
               /\ prompts'[contentType] = ""
               /\ feedIds'[contentType] = NullId
               /\ \A type \in ContentTypes \ {contentType} :
                       /\ filters'[type] = filters[type]
                       /\ prompts'[type] = prompts[type]
                       /\ feedIds'[type] = feedIds[type]
               /\ isPolling' = FALSE
               /\ \A type \in ContentTypes : ~ItemQuery(type).enabled'
               /\ savedPostIds' = savedPostIds
               /\ UNCHANGED <<contentType, inflight>>
               /\ last'.queue = <<>>
      ]_vars

\* The filter of posts has been cleared while reels had a filter and a feed:
\* reels keep both, and are polled no more.
C27_Witness ==
    /\ last.kind = "clear_filter"
    /\ contentType = "posts"
    /\ filters.posts = ""
    /\ feedIds.posts = NullId
    /\ filters.reels = "cats "
    /\ feedIds.reels # NullId
    /\ Elems(savedPostIds) # {}
    /\ ~isPolling


\* C28: a post id enters the saved posts only in the step in which the save
\* request for it is answered with success, and it is the only one to enter
\* then.  Asking to save a post that is not saved sends the request and leaves
\* the saved posts as they are, and so does a failed save.  Asking to save a
\* post that is saved removes it, and it alone, without a request.  A
\* 'savedItemRemoved' event removes the id it names and no other, and changes
\* nothing when that id is not saved.
C28_SavedOnlyAfterSuccessfulSave ==
    [][ /\ Elems(savedPostIds') \ Elems(savedPostIds) # {}
            => /\ last'.kind = "save_fulfilled"
               /\ \E r \in inflight \ inflight' :
                       /\ r.kind = "savePost"
                       /\ Elems(savedPostIds') =
                               Elems(savedPostIds) \cup {r.postId}
        /\ last'.kind = "save"
            => /\ Len(last'.queue) = 1
               /\ last'.queue[1].kind = "savePost"
               /\ last'.queue[1].postId \notin Elems(savedPostIds)
               /\ inflight' = inflight \cup {last'.queue[1]}
               /\ savedPostIds' = savedPostIds
        /\ last'.kind = "save_rejected"
            => /\ savedPostIds' = savedPostIds
               /\ sessionStorage' = sessionStorage
        /\ last'.kind = "unsave"
            => /\ last'.id \in Elems(savedPostIds)
               /\ Elems(savedPostIds') = Elems(savedPostIds) \ {last'.id}
               /\ inflight' = inflight
               /\ last'.queue = <<>>
        /\ last'.kind = "saved_item_removed"
            => /\ Elems(savedPostIds') = Elems(savedPostIds) \ {last'.id}
               /\ last'.id \notin Elems(savedPostIds)
                    => /\ savedPostIds' = savedPostIds
                       /\ sessionStorage' = sessionStorage
               /\ inflight' = inflight
               /\ last'.queue = <<>>
      ]_vars

\* A save has failed while another post was saved: the saved posts are that
\* other post alone, and the post whose save failed is not among them.
C28_Witness ==
    /\ last.kind = "save_rejected"
    /\ Len(savedPostIds) = 1
    /\ \E postId \in PostIds : postId \notin Elems(savedPostIds)
    /\ ~isSaving


\* C29: handleManualRefresh, called while the selected content type has no
\* feed id, changes nothing of the page and issues no request.  Called while
\* it has one, it makes the polling flag true and asks for one refresh, that
\* of the selected type's feed, leaving feed ids, filters, prompts and saved
\* posts as they are.  handleStopPolling makes the polling flag false, issues
\* no request and leaves feed ids, filters and saved posts as they are.
C29_ManualRefreshAndStopPolling ==
    [][ /\ last'.kind = "manual_refresh"
            => IF feedIds[contentType] = NullId
               THEN /\ UNCHANGED <<pageVars, clientVars>>
                    /\ last'.queue = <<>>
               ELSE /\ isPolling' = TRUE
                    /\ Len(last'.queue) = 1
                    /\ last'.queue[1].kind = "refreshFeed"
                    /\ last'.queue[1].type = contentType
                    /\ Num(last'.queue[1].postId) = feedIds[contentType]
                    /\ UNCHANGED <<feedIds, filters, prompts, savedPostIds,
                                   contentType, inflight>>
        /\ last'.kind = "stop_polling"
            => /\ isPolling' = FALSE
               /\ last'.queue = <<>>
               /\ UNCHANGED <<feedIds, filters, prompts, savedPostIds,
                              contentType, inflight>>
      ]_vars

\* handleManualRefresh has been called while reels were selected and had no
\* feed, posts having one: nothing was asked for, and the page does not poll.
C29_Witness ==
    /\ last.kind = "manual_refresh"
    /\ last.queue = <<>>
    /\ contentType = "reels"
    /\ feedIds.reels = NullId
    /\ feedIds.posts # NullId
    /\ ~isPolling

====
